---- MODULE Spec2Model ----
(***************************************************************************)
(* A model of the dynamic state machine engine (src/src/state_machine.rs): *)
(* the state loop of StateMachine::run, the action dispatcher              *)
(* execute_action, the broadcast channels that wire spawned agents, the    *)
(* reload inbox, and the placeholder resolver process_placeholders.        *)
(*                                                                         *)
(* A program string is a sequence of tokens.  A token is one character     *)
(* ("{", "}", a quote, a space, a line feed) or a run of characters that   *)
(* holds no brace and no quote ("input", "env:", "FOO"), so the scanner    *)
(* treats it exactly as it treats the characters it stands for.            *)
(***************************************************************************)
EXTENDS Naturals, Sequences, FiniteSets, TLC

VARIABLES
    environ,            \* the process environment: variable name -> value
    config,             \* config[i]: the active configuration of instance i
    current_state_key,  \* current_state_key[i]: the field of that name
    next_state_key,     \* next_state_key[i]: the loop variable of run()
    response_buffer,    \* response_buffer[i]: the loop's response buffer
    pc,                 \* pc[i]: where instance i is in run()
    results,            \* results[i][k]: the future of the k-th action
    completed,          \* completed[i]: action indices in completion order
    input_rx,           \* input_rx[i]: None or Some(receiver)
    output_tx,          \* output_tx[i]: None or Some(label of the sender)
    streams_map,        \* streams_map[i]: the labels the instance has senders for
    config_update_rx,   \* config_update_rx[i]: the queue of the reload inbox
    ret,                \* ret[i]: what run() returned
    chan,               \* chan[l]: the messages sent so far on label l
    sent_reloads,       \* the number of configurations the reload source sent
    r_pc,               \* the resolver harness: "off", "call" or "done"
    r_template,         \* the resolver harness: the template argument
    r_context,          \* the resolver harness: the response_buffer argument
    r_result            \* the resolver harness: what process_placeholders returned

vars == << environ, config, current_state_key, next_state_key, response_buffer,
           pc, results, completed, input_rx, output_tx, streams_map,
           config_update_rx, ret, chan, sent_reloads,
           r_pc, r_template, r_context, r_result >>

engine_vars == << config, current_state_key, next_state_key, response_buffer,
                  pc, results, completed, input_rx, output_tx, streams_map,
                  config_update_rx, ret, chan, sent_reloads >>

resolver_vars == << r_pc, r_template, r_context, r_result >>

(***************************************************************************)
(* Bounds of the model.                                                    *)
(***************************************************************************)
\* the longest chain root -> child -> grandchild of running instances
MaxDepth == 3
\* how many replacement configurations the reload source sends in a run
MaxReloads == 1
\* the most actions a state of the configurations has
MaxActions == 3
\* how many segments a template of the resolver harness is built from
MaxSegments == 3

(***************************************************************************)
(* Strings, options and results.                                           *)
(***************************************************************************)
LBRACE == "{"
RBRACE == "}"
QUOTE == "\""
SPACE == " "
LF == "\n"

\* the empty string, String::default()
EmptyString == << >>

\* Option<T>: None is the empty sequence, Some(x) the sequence of x alone
None == << >>
Some(x) == << x >>
IsSome(o) == o # << >>
Unwrap(o) == o[1]

\* Option<String>::unwrap_or_default
unwrap_or_default(o) == IF IsSome(o) THEN Unwrap(o) ELSE EmptyString

\* slice::first
first(buffer) == IF Len(buffer) = 0 THEN None ELSE Some(buffer[1])

Ok(v) == [tag |-> "Ok", val |-> v]
Err == [tag |-> "Err", val |-> << >>]

(***************************************************************************)
(* process_placeholders.                                                   *)
(***************************************************************************)
\* env::var(name).unwrap_or_default()
env_var(name) == IF name \in DOMAIN environ THEN environ[name] ELSE EmptyString

\* The regex \{([^}]+)\} tried at position i: the index of the closing brace,
\* or 0 when there is no match at i.  [^}]+ takes every token up to the first
\* closing brace, and it must take at least one.
MarkerEnd(s, i) ==
    IF i > Len(s) \/ s[i] # LBRACE THEN 0
    ELSE IF \A j \in (i + 1)..Len(s) : s[j] # RBRACE THEN 0
    ELSE LET j == CHOOSE j \in (i + 1)..Len(s) :
                      /\ s[j] = RBRACE
                      /\ \A k \in (i + 1)..(j - 1) : s[k] # RBRACE
         IN  IF j > i + 1 THEN j ELSE 0

\* serde_json::from_str(&format!("\"{}\"", placeholder_text)) as far as the
\* JSON parser goes: the text between two quotes is a JSON string unless it
\* holds a quote or an unescaped control character itself, and a JSON document
\* that is a string is never null.
JsonDocument(placeholder_text) ==
    IF \E k \in 1..Len(placeholder_text) : placeholder_text[k] \in { QUOTE, LF }
    THEN [kind |-> "error", str |-> EmptyString]
    ELSE [kind |-> "string", str |-> placeholder_text]

\* A unit variant of an untagged enum deserializes from the unit value (JSON
\* null) and from nothing else: the variant's name plays no part.
UntaggedUnitVariant(doc) == doc.kind = "null"

\* #[serde(untagged)] enum Placeholder { Input, Output, Env(String) }: the
\* variants are tried in declaration order and the first that fits is taken.
Placeholder(doc) ==
    IF doc.kind = "error" THEN [variant |-> "Err", name |-> EmptyString]
    ELSE IF UntaggedUnitVariant(doc) THEN [variant |-> "Input", name |-> EmptyString]
    ELSE IF UntaggedUnitVariant(doc) THEN [variant |-> "Output", name |-> EmptyString]
    ELSE IF doc.kind = "string" THEN [variant |-> "Env", name |-> doc.str]
    ELSE [variant |-> "Err", name |-> EmptyString]

\* the closure handed to replace_all: the replacement of one marker
replacement(placeholder_text, response_buffer_first) ==
    LET placeholder == Placeholder(JsonDocument(placeholder_text))
    IN  CASE placeholder.variant = "Err" -> EmptyString
          [] placeholder.variant = "Input" -> unwrap_or_default(response_buffer_first)
          [] placeholder.variant = "Output" -> unwrap_or_default(response_buffer_first)
          [] placeholder.variant = "Env" -> env_var(placeholder.name)

\* Regex::replace_all: the leftmost matches, none overlapping, each replaced;
\* the text a replacement puts in is not scanned again.
RECURSIVE replace_all(_, _, _)
replace_all(s, pos, response_buffer_first) ==
    IF pos > Len(s) THEN EmptyString
    ELSE LET j == MarkerEnd(s, pos)
         IN  IF j = 0
             THEN << s[pos] >> \o replace_all(s, pos + 1, response_buffer_first)
             ELSE replacement(SubSeq(s, pos + 1, j - 1), response_buffer_first)
                      \o replace_all(s, j + 1, response_buffer_first)

\* a resolver that scans its own result again
process_placeholders_rescan(template, response_buffer_first) ==
    Ok(replace_all(replace_all(template, 1, response_buffer_first), 1,
                   response_buffer_first))

\* Regex::new of the constant pattern succeeds, so the result is always Ok.
process_placeholders(template, response_buffer_first) ==
    Ok(replace_all(template, 1, response_buffer_first))

(***************************************************************************)
(* Configurations: Config, the state definitions and the Action enum as    *)
(* state_machine.rs uses them.                                             *)
(***************************************************************************)
NoConfig == [initial_state_key |-> EmptyString, states |-> << >>]

StateConfig(actions, next_state) == [actions |-> actions, next_state |-> next_state]

Config(initial_state_key, states) ==
    [initial_state_key |-> initial_state_key, states |-> states]

ActionRecord(kind, user_prompt, config_source, agent_config, input_label, output_label, is_background) ==
    [kind |-> kind, user_prompt |-> user_prompt, config_source |-> config_source,
     agent_config |-> agent_config, input_label |-> input_label,
     output_label |-> output_label, is_background |-> is_background]

CallApi == ActionRecord("CallApi", EmptyString, "-", NoConfig, "-", "-", FALSE)
Llm(user_prompt) == ActionRecord("Llm", user_prompt, "-", NoConfig, "-", "-", FALSE)
SpawnAgentInline(agent_config, input_label, output_label, is_background) ==
    ActionRecord("SpawnAgent", EmptyString, "Inline", agent_config, input_label, output_label,
                 is_background)
SpawnAgentFile(input_label, output_label, is_background) ==
    ActionRecord("SpawnAgent", EmptyString, "File", NoConfig, input_label, output_label,
                 is_background)
WaitForInput == ActionRecord("WaitForInput", EmptyString, "-", NoConfig, "-", "-", FALSE)
Yield == ActionRecord("Yield", EmptyString, "-", NoConfig, "-", "-", FALSE)
GetAgentConfig == ActionRecord("GetAgentConfig", EmptyString, "-", NoConfig, "-", "-", FALSE)
SetAgentConfig == ActionRecord("SetAgentConfig", EmptyString, "-", NoConfig, "-", "-", FALSE)

Marker(text) == << LBRACE >> \o text \o << RBRACE >>

\* The configurations the model runs.  State keys are strings.
KeyA == << "a" >>
KeyB == << "b" >>
KeyC == << "c" >>
KeyAbsent == << "zz" >>

\* a producer, then a WaitForInput and a Yield with no channel wired to them
GrandChildConfig ==
    Config(KeyA,
        (KeyA :> StateConfig(<< CallApi >>, Some(KeyB)))
     @@ (KeyB :> StateConfig(<< WaitForInput, Yield >>, None)))

\* a producer, then a listener next to a publisher, then a nested spawn
ChildEchoConfig ==
    Config(KeyA,
        (KeyA :> StateConfig(<< CallApi >>, Some(KeyB)))
     @@ (KeyB :> StateConfig(<< WaitForInput, Yield >>, Some(KeyC)))
     @@ (KeyC :> StateConfig(<< SpawnAgentInline(GrandChildConfig, "L", "L", TRUE) >>, None)))

\* a producer, and then a publisher next to two producers
ChildYieldConfig ==
    Config(KeyA,
        (KeyA :> StateConfig(<< CallApi >>, Some(KeyB)))
     @@ (KeyB :> StateConfig(<< Yield, CallApi, CallApi >>, None)))

\* branching on the data: the next state of a is named by a template
RootBranchConfig ==
    Config(KeyA,
        (KeyA :> StateConfig(<< CallApi, Llm(Marker(<< "input" >>)), CallApi >>,
                             Some(Marker(<< "input" >>))))
     @@ (KeyB :> StateConfig(<< CallApi, GetAgentConfig >>, Some(KeyC)))
     @@ (KeyC :> StateConfig(<< SetAgentConfig, CallApi >>, None)))

\* an initial state key that names no state
RootMissingConfig ==
    Config(KeyAbsent, KeyA :> StateConfig(<< CallApi >>, None))

\* a root that spawns: an inline child that listens and publishes on L, then a
\* child read from a file that publishes on M and listens on a label without a channel
RootSpawnConfig ==
    Config(KeyA,
        (KeyA :> StateConfig(<< SpawnAgentInline(ChildEchoConfig, "L", "L", TRUE), CallApi >>,
                             Some(KeyB)))
     @@ (KeyB :> StateConfig(<< CallApi, SpawnAgentFile("X", "M", FALSE), Yield >>, None)))

RootConfigs == { RootBranchConfig, RootMissingConfig, RootSpawnConfig }

\* a replacement whose state b spawns on a label that no root was built with
ReloadSpawnConfig ==
    Config(KeyA,
        KeyB :> StateConfig(<< SpawnAgentInline(GrandChildConfig, "L", "N", FALSE) >>, None))

\* what the reload source sends
ReloadConfigs == { RootBranchConfig, RootMissingConfig, ReloadSpawnConfig }

\* what reading and parsing an agent's configuration file can give, a failure aside
FileConfigs == { ChildYieldConfig }

\* the configuration of test_run_parallel_actions: one state, one WaitForInput
KeyStart == << "start" >>
TestConfig == Config(KeyStart, KeyStart :> StateConfig(<< WaitForInput >>, None))

\* the response bodies an API call can return: a state key, and a text that
\* holds a marker
ApiBodies == { KeyB, Marker(<< "bogus" >>) \o KeyC }

\* the labels of the channels: L and M are in configurations, T is the channel
\* the test module builds
Labels == { "L", "M", "T" }

\* the process environments of the engine's runs: an empty one, and one where
\* the value of a variable holds marker text itself
EngineEnvs ==
    { << >>,
      (<< "input" >> :> KeyB) @@ (<< "bogus" >> :> Marker(KeyC)) }

(***************************************************************************)
(* Instances, action futures and channels.                                 *)
(***************************************************************************)
\* instance 1 is the root; instance i + 1 is the agent that instance i spawned
Insts == 1..MaxDepth

\* mpsc::channel(100): the capacity of the reload inbox
ReloadCapacity == 100
\* Duration::from_secs(10): the deadline of a WaitForInput, in seconds
TimeoutSecs == 10
\* broadcast::channel(100): the history a channel keeps for a slow receiver
BroadcastCapacity == 100

NoReceiver == [label |-> "-", pos |-> 0]
\* a broadcast receiver: it sees the messages sent after position pos
Receiver(label) == [label |-> label, pos |-> Len(chan[label])]

NoReturn == [tag |-> "-", val |-> << >>]

\* the future of one action: not polled yet, awaiting, or ready with its result
\* elapsed counts the seconds a receive has been awaited
Pending == [st |-> "pending", res |-> Err, rx |-> NoReceiver, elapsed |-> 0]
Running(rx) == [st |-> "running", res |-> Err, rx |-> rx, elapsed |-> 0]
Ready(res) == [st |-> "done", res |-> res, rx |-> NoReceiver, elapsed |-> 0]

state_config(i) == config[i].states[next_state_key[i]]
actions(i) == state_config(i).actions

\* a registry that has the labels of the initial state's actions only
new_streams_map_initial(cfg) ==
    IF cfg.initial_state_key \notin DOMAIN cfg.states THEN { }
    ELSE { cfg.states[cfg.initial_state_key].actions[k].output_label :
             k \in { n \in 1..Len(cfg.states[cfg.initial_state_key].actions) :
                       cfg.states[cfg.initial_state_key].actions[n].kind = "SpawnAgent" } }

\* the labels StateMachine::new creates a channel for: the output label of
\* every SpawnAgent action of every state of the configuration
new_streams_map(cfg) ==
    UNION { { cfg.states[key].actions[k].output_label :
                k \in { n \in 1..Len(cfg.states[key].actions) :
                          cfg.states[key].actions[n].kind = "SpawnAgent" } } :
            key \in DOMAIN cfg.states }

\* the receivers alive on a label: the input_rx of the running instances and
\* the receivers the running WaitForInput actions resubscribed
ReceiverCount(label) ==
    Cardinality({ i \in Insts : IsSome(input_rx[i]) /\ Unwrap(input_rx[i]).label = label })
  + Cardinality({ ik \in UNION { { << i, k >> : k \in 1..Len(results[i]) } : i \in Insts } :
                    /\ results[ik[1]][ik[2]].st = "running"
                    /\ results[ik[1]][ik[2]].rx.label = label })

\* a join that keeps the first element only
join_first(list, sep) == IF Len(list) = 0 THEN EmptyString ELSE list[1]

\* [String]::join
RECURSIVE join(_, _)
join(list, sep) ==
    IF Len(list) = 0 THEN EmptyString
    ELSE IF Len(list) = 1 THEN list[1]
    ELSE list[1] \o sep \o join(Tail(list), sep)

(***************************************************************************)
(* StateMachine::new and the start of run().                               *)
(***************************************************************************)
\* the fields of a root built on cfg with the inbound receiver rx
Constructed(cfg, rx) ==
        /\ config = [i \in Insts |-> IF i = 1 THEN cfg ELSE NoConfig]
        /\ current_state_key =
               [i \in Insts |-> IF i = 1 THEN cfg.initial_state_key ELSE EmptyString]
        /\ next_state_key =
               [i \in Insts |-> IF i = 1 THEN cfg.initial_state_key ELSE EmptyString]
        /\ response_buffer = [i \in Insts |-> << >>]
        /\ pc = [i \in Insts |-> IF i = 1 THEN "lookup" ELSE "idle"]
        /\ results = [i \in Insts |-> << >>]
        /\ completed = [i \in Insts |-> << >>]
        /\ input_rx = [i \in Insts |-> IF i = 1 THEN rx ELSE None]
        /\ output_tx = [i \in Insts |-> None]
        /\ streams_map = [i \in Insts |-> IF i = 1 THEN new_streams_map(cfg) ELSE {}]
        /\ config_update_rx = [i \in Insts |-> << >>]
        /\ ret = [i \in Insts |-> NoReturn]
        /\ chan = [l \in Labels |-> << >>]
        /\ sent_reloads = 0

\* StateMachine::new(config_path)
EngineInit == \E cfg \in RootConfigs : Constructed(cfg, None)

\* the instance test_run_parallel_actions builds: input_rx is a receiver
\* subscribed to the test's channel before anything is sent on it
TestInit == Constructed(TestConfig, Some([label |-> "T", pos |-> 0]))

ResolverOff ==
    /\ r_pc = "off"
    /\ r_template = EmptyString
    /\ r_context = None
    /\ r_result = NoReturn

Init ==
    /\ environ \in EngineEnvs
    /\ EngineInit \/ TestInit
    /\ ResolverOff

(***************************************************************************)
(* StateMachine::run: the state loop.                                      *)
(***************************************************************************)
\* a variant of run_result: a run that has nothing to return is an error
run_result_nonempty(buffer) == IF Len(buffer) = 0 THEN Err ELSE Ok(buffer)

\* Ok(response_buffer), the value of run() after the loop
run_result(buffer) == Ok(buffer)

\* run() returns: the instance is consumed, its handles are dropped
Return(i, value) ==
    /\ pc' = [pc EXCEPT ![i] = "done"]
    /\ ret' = [ret EXCEPT ![i] = value]
    /\ input_rx' = [input_rx EXCEPT ![i] = None]
    /\ output_tx' = [output_tx EXCEPT ![i] = None]
    /\ streams_map' = [streams_map EXCEPT ![i] = {}]

\* while let Some(state_config) = self.config.states.get(&next_state_key)
Lookup(i) ==
    /\ pc[i] = "lookup"
    /\ IF next_state_key[i] \in DOMAIN config[i].states
       THEN /\ results' = [results EXCEPT ![i] = [k \in 1..Len(actions(i)) |-> Pending]]
            /\ completed' = [completed EXCEPT ![i] = << >>]
            /\ pc' = [pc EXCEPT ![i] = IF Len(actions(i)) = 0 THEN "join" ELSE "launch"]
            /\ UNCHANGED << ret, input_rx, output_tx, streams_map >>
       ELSE /\ Return(i, run_result(response_buffer[i]))
            /\ UNCHANGED << results, completed >>
    /\ UNCHANGED << environ, config, current_state_key, next_state_key, response_buffer,
                    config_update_rx, chan, sent_reloads, resolver_vars >>

(***************************************************************************)
(* execute_action: what the first poll of an action's future does.         *)
(* join_all polls the futures in declaration order, so the actions of a    *)
(* state start one after the other; each runs to its first await.          *)
(***************************************************************************)
\* the index of the next future join_all polls for the first time
NextPending(i) ==
    CHOOSE k \in 1..Len(results[i]) :
        /\ results[i][k].st = "pending"
        /\ \A m \in 1..(k - 1) : results[i][m].st # "pending"

Starting(i, kind) ==
    /\ pc[i] = "launch"
    /\ actions(i)[NextPending(i)].kind = kind

\* the future of action k becomes fut; the last first poll ends the launch
Polled(i, k, fut) ==
    /\ results' = [results EXCEPT ![i][k] = fut]
    /\ completed' = [completed EXCEPT
                        ![i] = IF fut.st = "done" THEN Append(@, k) ELSE @]

Launched(i, k) == IF k = Len(results[i]) THEN "join" ELSE "launch"

\* Action::CallApi: the request is sent and awaited
StartCallApi(i) ==
    /\ Starting(i, "CallApi")
    /\ Polled(i, NextPending(i), Running(NoReceiver))
    /\ pc' = [pc EXCEPT ![i] = Launched(i, NextPending(i))]
    /\ UNCHANGED << environ, config, current_state_key, next_state_key, response_buffer,
                    input_rx, output_tx, streams_map, config_update_rx, ret, chan,
                    sent_reloads, resolver_vars >>

\* Action::Llm: the user prompt is resolved and logged; there is no output
llm_result(llm_data, buffer) ==
    IF process_placeholders(llm_data.user_prompt, first(buffer)).tag = "Err"
    THEN Err
    ELSE Ok(None)

StartLlm(i) ==
    /\ Starting(i, "Llm")
    /\ Polled(i, NextPending(i),
              Ready(llm_result(actions(i)[NextPending(i)], response_buffer[i])))
    /\ pc' = [pc EXCEPT ![i] = Launched(i, NextPending(i))]
    /\ UNCHANGED << environ, config, current_state_key, next_state_key, response_buffer,
                    input_rx, output_tx, streams_map, config_update_rx, ret, chan,
                    sent_reloads, resolver_vars >>

\* Action::GetAgentConfig and Action::SetAgentConfig: logged, no output
StartAgentConfig(i) ==
    /\ \/ Starting(i, "GetAgentConfig")
       \/ Starting(i, "SetAgentConfig")
    /\ Polled(i, NextPending(i), Ready(Ok(None)))
    /\ pc' = [pc EXCEPT ![i] = Launched(i, NextPending(i))]
    /\ UNCHANGED << environ, config, current_state_key, next_state_key, response_buffer,
                    input_rx, output_tx, streams_map, config_update_rx, ret, chan,
                    sent_reloads, resolver_vars >>

\* Action::WaitForInput, up to the await: without an input channel the action
\* is over; with one, the receiver is resubscribed at the tail of the channel
wait_for_input_start(rx) ==
    IF IsSome(rx) THEN Running(Receiver(Unwrap(rx).label)) ELSE Ready(Ok(None))

StartWaitForInput(i) ==
    /\ Starting(i, "WaitForInput")
    /\ Polled(i, NextPending(i), wait_for_input_start(input_rx[i]))
    /\ pc' = [pc EXCEPT ![i] = Launched(i, NextPending(i))]
    /\ UNCHANGED << environ, config, current_state_key, next_state_key, response_buffer,
                    input_rx, output_tx, streams_map, config_update_rx, ret, chan,
                    sent_reloads, resolver_vars >>

\* Action::Yield: does it send, and does broadcast::Sender::send succeed
yield_sends(tx, buffer) == IsSome(tx) /\ IsSome(first(buffer))

\* a Yield that hands what it sent on as its output
yield_result_echo(tx, buffer) ==
    IF yield_sends(tx, buffer) /\ ReceiverCount(Unwrap(tx)) = 0 THEN Err
    ELSE Ok(first(buffer))

yield_result(tx, buffer) ==
    IF yield_sends(tx, buffer) /\ ReceiverCount(Unwrap(tx)) = 0 THEN Err ELSE Ok(None)

StartYield(i) ==
    /\ Starting(i, "Yield")
    /\ Polled(i, NextPending(i), Ready(yield_result(output_tx[i], response_buffer[i])))
    /\ chan' = IF yield_sends(output_tx[i], response_buffer[i])
                  /\ ReceiverCount(Unwrap(output_tx[i])) > 0
               THEN [chan EXCEPT ![Unwrap(output_tx[i])] =
                         Append(@, Unwrap(first(response_buffer[i])))]
               ELSE chan
    /\ pc' = [pc EXCEPT ![i] = Launched(i, NextPending(i))]
    /\ UNCHANGED << environ, config, current_state_key, next_state_key, response_buffer,
                    input_rx, output_tx, streams_map, config_update_rx, ret,
                    sent_reloads, resolver_vars >>

\* a spawn whose child takes over the registry of its parent
Spawn_inheriting(i, k, agent_config, pci) ==
    /\ i + 1 \in Insts
    /\ pc[i + 1] = "idle"
    /\ config' = [config EXCEPT ![i + 1] = agent_config]
    /\ current_state_key' =
           [current_state_key EXCEPT ![i + 1] = agent_config.initial_state_key]
    /\ next_state_key' = [next_state_key EXCEPT ![i + 1] = agent_config.initial_state_key]
    /\ response_buffer' = [response_buffer EXCEPT ![i + 1] = << >>]
    /\ input_rx' = [input_rx EXCEPT
                       ![i + 1] = IF actions(i)[k].input_label \in streams_map[i]
                                  THEN Some(Receiver(actions(i)[k].input_label))
                                  ELSE None]
    /\ output_tx' = [output_tx EXCEPT
                        ![i + 1] = IF actions(i)[k].output_label \in streams_map[i]
                                   THEN Some(actions(i)[k].output_label)
                                   ELSE None]
    /\ streams_map' = [streams_map EXCEPT ![i + 1] = streams_map[i]]
    /\ config_update_rx' = [config_update_rx EXCEPT ![i + 1] = << >>]
    /\ ret' = [ret EXCEPT ![i + 1] = NoReturn]
    /\ results' = [results EXCEPT ![i][k] = Running(NoReceiver), ![i + 1] = << >>]
    /\ completed' = [completed EXCEPT ![i + 1] = << >>]
    /\ pc' = [pc EXCEPT ![i] = pci, ![i + 1] = "lookup"]

\* Action::SpawnAgent from the wiring on: the child gets a fresh subscription
\* to the input label and a clone of the sender of the output label, where the
\* parent's streams_map has them, and runs as a task of its own
\* (new_with_config: no channels of its own).  The action awaits the task.
\* pci is where the parent's run() is after the step.
Spawn(i, k, agent_config, pci) ==
    /\ i + 1 \in Insts
    /\ pc[i + 1] = "idle"
    /\ config' = [config EXCEPT ![i + 1] = agent_config]
    /\ current_state_key' =
           [current_state_key EXCEPT ![i + 1] = agent_config.initial_state_key]
    /\ next_state_key' = [next_state_key EXCEPT ![i + 1] = agent_config.initial_state_key]
    /\ response_buffer' = [response_buffer EXCEPT ![i + 1] = << >>]
    /\ input_rx' = [input_rx EXCEPT
                       ![i + 1] = IF actions(i)[k].input_label \in streams_map[i]
                                  THEN Some(Receiver(actions(i)[k].input_label))
                                  ELSE None]
    /\ output_tx' = [output_tx EXCEPT
                        ![i + 1] = IF actions(i)[k].output_label \in streams_map[i]
                                   THEN Some(actions(i)[k].output_label)
                                   ELSE None]
    /\ streams_map' = [streams_map EXCEPT ![i + 1] = {}]
    /\ config_update_rx' = [config_update_rx EXCEPT ![i + 1] = << >>]
    /\ ret' = [ret EXCEPT ![i + 1] = NoReturn]
    /\ results' = [results EXCEPT ![i][k] = Running(NoReceiver), ![i + 1] = << >>]
    /\ completed' = [completed EXCEPT ![i + 1] = << >>]
    /\ pc' = [pc EXCEPT ![i] = pci, ![i + 1] = "lookup"]

\* AgentConfigSource::Inline: the configuration is at hand
StartSpawnInline(i) ==
    /\ Starting(i, "SpawnAgent")
    /\ actions(i)[NextPending(i)].config_source = "Inline"
    /\ Spawn(i, NextPending(i), actions(i)[NextPending(i)].agent_config,
             Launched(i, NextPending(i)))
    /\ UNCHANGED << environ, chan, sent_reloads, resolver_vars >>

\* AgentConfigSource::File: the file is read first, and that is awaited
LoadingConfig == [st |-> "loading", res |-> Err, rx |-> NoReceiver, elapsed |-> 0]

StartSpawnFile(i) ==
    /\ Starting(i, "SpawnAgent")
    /\ actions(i)[NextPending(i)].config_source = "File"
    /\ Polled(i, NextPending(i), LoadingConfig)
    /\ pc' = [pc EXCEPT ![i] = Launched(i, NextPending(i))]
    /\ UNCHANGED << environ, config, current_state_key, next_state_key, response_buffer,
                    input_rx, output_tx, streams_map, config_update_rx, ret, chan,
                    sent_reloads, resolver_vars >>

(***************************************************************************)
(* execute_action: how an awaiting action completes.                       *)
(***************************************************************************)
Awaiting(i, k, kind) ==
    /\ k \in 1..Len(results[i])
    /\ pc[i] \in { "launch", "join" }
    /\ results[i][k].st = "running"
    /\ actions(i)[k].kind = kind

\* call_api_data: the body of the response, or a transport error
CallApiDone(i, k) ==
    /\ Awaiting(i, k, "CallApi")
    /\ \E res \in { Ok(Some(body)) : body \in ApiBodies } \cup { Err } :
           Polled(i, k, Ready(res))
    /\ UNCHANGED << environ, config, current_state_key, next_state_key, response_buffer,
                    pc, input_rx, output_tx, streams_map, config_update_rx, ret, chan,
                    sent_reloads, resolver_vars >>

\* load_config_from_path(agent_config_file): an error ends the action, a
\* configuration is wired and spawned
LoadConfigDone(i, k) ==
    /\ k \in 1..Len(results[i])
    /\ pc[i] \in { "launch", "join" }
    /\ results[i][k].st = "loading"
    /\ \/ /\ Polled(i, k, Ready(Err))
          /\ UNCHANGED << config, current_state_key, next_state_key, response_buffer,
                          pc, input_rx, output_tx, streams_map, config_update_rx, ret >>
       \/ \E agent_config \in FileConfigs : Spawn(i, k, agent_config, pc[i])
    /\ UNCHANGED << environ, chan, sent_reloads, resolver_vars >>

\* input_tx of the test: the sender of the channel the root's input_rx was
\* subscribed to, alive for as long as the root runs
TestSender(label) == IsSome(input_rx[1]) /\ Unwrap(input_rx[1]).label = label

\* the senders alive on a label: the streams_map entries, the clones the
\* spawned agents hold and the sender of the test
SenderCount(label) ==
    Cardinality({ i \in Insts : label \in streams_map[i] })
  + Cardinality({ i \in Insts : output_tx[i] = Some(label) })
  + (IF TestSender(label) THEN 1 ELSE 0)

\* timeout(10 s, input_rx.recv()): the oldest message the receiver has not seen,
\* or nothing: the receiver lagged, the channel is closed, or the deadline passed
wait_for_input_result(rx) ==
    IF Len(chan[rx.label]) - rx.pos > BroadcastCapacity THEN Ok(None)
    ELSE IF Len(chan[rx.label]) > rx.pos THEN Ok(Some(chan[rx.label][rx.pos + 1]))
    ELSE IF SenderCount(rx.label) = 0 THEN Ok(None)
    ELSE Ok(None)

\* a receive with no deadline to wait for: it is over as soon as it is polled
wait_for_input_ready_eager(fut) == fut.elapsed >= 0

\* when the timeout future is ready: recv() has a message or an error, or the
\* deadline has passed
wait_for_input_ready(fut) ==
    \/ Len(chan[fut.rx.label]) > fut.rx.pos
    \/ SenderCount(fut.rx.label) = 0
    \/ fut.elapsed >= TimeoutSecs

WaitForInputDone(i, k) ==
    /\ Awaiting(i, k, "WaitForInput")
    /\ wait_for_input_ready(results[i][k])
    /\ Polled(i, k, Ready(wait_for_input_result(results[i][k].rx)))
    /\ UNCHANGED << environ, config, current_state_key, next_state_key, response_buffer,
                    pc, input_rx, output_tx, streams_map, config_update_rx, ret, chan,
                    sent_reloads, resolver_vars >>

\* the task of a spawned agent panics: the runtime drops the task with all it
\* holds and its JoinHandle yields a JoinError.  The panic is taken at the top
\* of the child's loop, before its first state or between two states.
Panicked == [tag |-> "Panic", val |-> << >>]
Panic(i) ==
    /\ i > 1
    /\ pc[i] = "lookup"
    /\ Return(i, Panicked)
    /\ results' = [results EXCEPT ![i] = << >>]
    /\ completed' = [completed EXCEPT ![i] = << >>]
    /\ UNCHANGED << environ, config, current_state_key, next_state_key, response_buffer,
                    config_update_rx, chan, sent_reloads, resolver_vars >>

\* a spawn that hands on whatever the child left, failed or not
spawn_result_lenient(child_ret) == Ok(Some(join(child_ret.val, << LF >>)))

\* tokio::spawn(..).await??: the child's result list joined by line feeds is the
\* output; a child that returned an error or panicked is the action's error
spawn_result(child_ret) ==
    IF child_ret.tag = "Ok" THEN Ok(Some(join(child_ret.val, << LF >>))) ELSE Err

SpawnDone(i, k) ==
    /\ Awaiting(i, k, "SpawnAgent")
    /\ i + 1 \in Insts
    /\ pc[i + 1] = "done"
    /\ results' = [results EXCEPT ![i][k] = Ready(spawn_result(ret[i + 1])),
                                  ![i + 1] = << >>]
    /\ completed' = [completed EXCEPT ![i] = Append(@, k), ![i + 1] = << >>]
    /\ pc' = [pc EXCEPT ![i + 1] = "idle"]
    /\ config' = [config EXCEPT ![i + 1] = NoConfig]
    /\ current_state_key' = [current_state_key EXCEPT ![i + 1] = EmptyString]
    /\ next_state_key' = [next_state_key EXCEPT ![i + 1] = EmptyString]
    /\ response_buffer' = [response_buffer EXCEPT ![i + 1] = << >>]
    /\ ret' = [ret EXCEPT ![i + 1] = NoReturn]
    /\ UNCHANGED << environ, input_rx, output_tx, streams_map, config_update_rx, chan,
                    sent_reloads, resolver_vars >>

(***************************************************************************)
(* StateMachine::run: the join of a state's actions and the transition.    *)
(***************************************************************************)
\* a variant of join_ready: ready as soon as one future is (a select)
join_ready_any(futures) ==
    Len(futures) = 0 \/ \E k \in 1..Len(futures) : futures[k].st = "done"

\* join_all(action_futures).await is ready when every future is
join_ready(futures) == \A k \in 1..Len(futures) : futures[k].st = "done"

\* a variant of join_all: the results in the order the futures completed
join_all_unordered(futures, completion_order) ==
    [n \in 1..Len(completion_order) |-> futures[completion_order[n]].res]

\* the Vec join_all gives: the results in the order of the futures it was given
join_all(futures, completion_order) == [k \in 1..Len(futures) |-> futures[k].res]

\* .flatten().flatten(): the errors and then the Nones are dropped
HasOutput(res) == res.tag = "Ok" /\ IsSome(res.val)
flatten_flatten(list) ==
    LET kept == SelectSeq(list, HasOutput)
    IN  [n \in 1..Len(kept) |-> Unwrap(kept[n].val)]

\* a variant of collect: the first failed action is the error of the whole
collect_try(list, old_buffer) ==
    IF \E n \in 1..Len(list) : list[n].tag = "Err"
    THEN Err
    ELSE LET outputs == flatten_flatten(list)
         IN  Ok([n \in 1..Len(outputs) |->
                    process_placeholders(outputs[n], first(old_buffer)).val])

\* "Process and collect responses": results.into_iter().flatten().flatten()
\* .map(process_placeholders(result, response_buffer.first())).collect()?:
\* each output is resolved against the first element of the buffer of the state
\* before; an error of the resolver would be the error of the whole
collect(list, old_buffer) ==
    LET outputs == flatten_flatten(list)
        mapped == [n \in 1..Len(outputs) |->
                      process_placeholders(outputs[n], first(old_buffer))]
    IN  IF \E n \in 1..Len(mapped) : mapped[n].tag = "Err"
        THEN Err
        ELSE Ok([n \in 1..Len(mapped) |-> mapped[n].val])

\* the context the next_state template is resolved with
next_state_context(new_buffer, old_buffer) == first(new_buffer)

\* a variant of next_step: a state without next_state restarts the machine
next_step_restart(state, cfg, new_buffer, old_buffer) ==
    IF IsSome(state.next_state)
    THEN LET processed_next_state ==
                 process_placeholders(Unwrap(state.next_state), first(new_buffer))
         IN  IF processed_next_state.val \in DOMAIN cfg.states
             THEN [tag |-> "Continue", key |-> processed_next_state.val]
             ELSE [tag |-> "Break", key |-> processed_next_state.val]
    ELSE [tag |-> "Continue", key |-> cfg.initial_state_key]

\* a variant of next_step: a next state that does not exist is an error
next_step_strict(state, cfg, new_buffer, old_buffer) ==
    IF IsSome(state.next_state)
    THEN LET processed_next_state ==
                 process_placeholders(Unwrap(state.next_state), first(new_buffer))
         IN  IF processed_next_state.val \in DOMAIN cfg.states
             THEN [tag |-> "Continue", key |-> processed_next_state.val]
             ELSE [tag |-> "Err", key |-> processed_next_state.val]
    ELSE [tag |-> "Break", key |-> EmptyString]

\* "Process next state": continue with a key, break, or fail
next_step(state, cfg, new_buffer, old_buffer) ==
    IF IsSome(state.next_state)
    THEN LET processed_next_state ==
                 process_placeholders(Unwrap(state.next_state),
                                      next_state_context(new_buffer, old_buffer))
         IN  IF processed_next_state.tag = "Err" THEN [tag |-> "Err", key |-> EmptyString]
             ELSE IF processed_next_state.val \in DOMAIN cfg.states
             THEN [tag |-> "Continue", key |-> processed_next_state.val]
             ELSE [tag |-> "Break", key |-> processed_next_state.val]
    ELSE [tag |-> "Break", key |-> EmptyString]

Join(i) ==
    /\ pc[i] = "join"
    /\ join_ready(results[i])
    /\ LET buffer == collect(join_all(results[i], completed[i]), response_buffer[i])
       IN  IF buffer.tag = "Err"
           THEN /\ Return(i, Err)
                /\ UNCHANGED << response_buffer, next_state_key >>
           ELSE LET step == next_step(state_config(i), config[i], buffer.val,
                                      response_buffer[i])
                IN  /\ response_buffer' = [response_buffer EXCEPT ![i] = buffer.val]
                    /\ IF step.tag = "Continue"
                       THEN /\ next_state_key' = [next_state_key EXCEPT ![i] = step.key]
                            /\ pc' = [pc EXCEPT ![i] = "reload"]
                            /\ UNCHANGED << ret, input_rx, output_tx, streams_map >>
                       ELSE /\ Return(i, IF step.tag = "Err" THEN Err
                                         ELSE run_result(buffer.val))
                            /\ UNCHANGED next_state_key
    /\ UNCHANGED << environ, config, current_state_key, results, completed,
                    config_update_rx, chan, sent_reloads, resolver_vars >>

\* a check that restarts the loop at the initial state of the replacement
CheckReload_resync(i) ==
    /\ pc[i] = "reload"
    /\ IF Len(config_update_rx[i]) > 0
       THEN /\ config' = [config EXCEPT ![i] = Head(config_update_rx[i])]
            /\ current_state_key' =
                   [current_state_key EXCEPT
                        ![i] = Head(config_update_rx[i]).initial_state_key]
            /\ next_state_key' =
                   [next_state_key EXCEPT
                        ![i] = Head(config_update_rx[i]).initial_state_key]
            /\ config_update_rx' = [config_update_rx EXCEPT ![i] = Tail(@)]
       ELSE UNCHANGED << config, current_state_key, next_state_key, config_update_rx >>
    /\ pc' = [pc EXCEPT ![i] = "lookup"]
    /\ UNCHANGED << environ, response_buffer, results, completed,
                    input_rx, output_tx, streams_map, ret, chan, sent_reloads,
                    resolver_vars >>

\* a check that waits for a configuration: recv().await in place of try_recv()
CheckReload_blocking(i) ==
    /\ pc[i] = "reload"
    /\ Len(config_update_rx[i]) > 0
    /\ config' = [config EXCEPT ![i] = Head(config_update_rx[i])]
    /\ current_state_key' =
           [current_state_key EXCEPT ![i] = Head(config_update_rx[i]).initial_state_key]
    /\ config_update_rx' = [config_update_rx EXCEPT ![i] = Tail(@)]
    /\ pc' = [pc EXCEPT ![i] = "lookup"]
    /\ UNCHANGED << environ, next_state_key, response_buffer, results, completed,
                    input_rx, output_tx, streams_map, ret, chan, sent_reloads,
                    resolver_vars >>

\* "Check for config updates": config_update_rx.try_recv() never waits
CheckReload(i) ==
    /\ pc[i] = "reload"
    /\ IF Len(config_update_rx[i]) > 0
       THEN /\ config' = [config EXCEPT ![i] = Head(config_update_rx[i])]
            /\ current_state_key' =
                   [current_state_key EXCEPT
                        ![i] = Head(config_update_rx[i]).initial_state_key]
            /\ config_update_rx' = [config_update_rx EXCEPT ![i] = Tail(@)]
       ELSE UNCHANGED << config, current_state_key, config_update_rx >>
    /\ pc' = [pc EXCEPT ![i] = "lookup"]
    /\ UNCHANGED << environ, next_state_key, response_buffer, results, completed,
                    input_rx, output_tx, streams_map, ret, chan, sent_reloads,
                    resolver_vars >>

\* the reload source: a holder of get_config_update_tx() sends a configuration
\* to the root while the root's receiver is alive.  The inbox is read between
\* two states only, so the moment within a state at which a configuration
\* arrives makes no difference to the run: it arrives when the futures of the
\* state are ready, before the results are collected or before the check.
ReloadSend ==
    /\ sent_reloads < MaxReloads
    /\ \/ pc[1] = "reload"
       \/ pc[1] = "join" /\ \A k \in 1..Len(results[1]) : results[1][k].st = "done"
    /\ Len(config_update_rx[1]) < ReloadCapacity
    /\ \E cfg \in ReloadConfigs :
           config_update_rx' = [config_update_rx EXCEPT ![1] = Append(@, cfg)]
    /\ sent_reloads' = sent_reloads + 1
    /\ UNCHANGED << environ, config, current_state_key, next_state_key, response_buffer,
                    pc, results, completed, input_rx, output_tx, streams_map, ret, chan,
                    resolver_vars >>

\* the futures that await a receive
Receiving(i) ==
    { k \in 1..Len(results[i]) :
        results[i][k].st = "running" /\ actions(i)[k].kind = "WaitForInput" }

\* a second passes: every pending receive has waited one second more.  The
\* timer of a receive fires when its deadline is reached, so no receive is
\* awaited beyond it.
Tick ==
    /\ \E i \in Insts : Receiving(i) # { }
    /\ \A i \in Insts : \A k \in Receiving(i) : results[i][k].elapsed < TimeoutSecs
    /\ results' = [i \in Insts |->
                      [k \in 1..Len(results[i]) |->
                          IF k \in Receiving(i)
                          THEN [results[i][k] EXCEPT !.elapsed = @ + 1]
                          ELSE results[i][k]]]
    /\ UNCHANGED << environ, config, current_state_key, next_state_key, response_buffer,
                    pc, completed, input_rx, output_tx, streams_map, config_update_rx,
                    ret, chan, sent_reloads, resolver_vars >>

\* input_tx.send("test") of the test: one message on the channel the root's
\* input_rx is subscribed to
TestMessage == << "test" >>
TestSend ==
    /\ TestSender("T")
    /\ chan["T"] = << >>
    /\ chan' = [chan EXCEPT !["T"] = Append(@, TestMessage)]
    /\ UNCHANGED << environ, config, current_state_key, next_state_key, response_buffer,
                    pc, results, completed, input_rx, output_tx, streams_map,
                    config_update_rx, ret, sent_reloads, resolver_vars >>

Next ==
    \/ \E i \in Insts :
           \/ Lookup(i)
           \/ StartCallApi(i)
           \/ StartLlm(i)
           \/ StartAgentConfig(i)
           \/ StartWaitForInput(i)
           \/ StartYield(i)
           \/ StartSpawnInline(i)
           \/ StartSpawnFile(i)
           \/ Join(i)
           \/ CheckReload(i)
           \/ Panic(i)
    \/ \E i \in Insts, k \in 1..MaxActions :
           \/ CallApiDone(i, k)
           \/ LoadConfigDone(i, k)
           \/ WaitForInputDone(i, k)
           \/ SpawnDone(i, k)
    \/ ReloadSend
    \/ Tick
    \/ TestSend

Spec == Init /\ [][Next]_vars

\* The runtime keeps its clock running and polls a future that is ready: time
\* does not stop while a receive is pending, and a receive that has a message,
\* a closed channel or a passed deadline is completed.
FairSpec ==
    /\ Spec
    /\ WF_vars(Tick)
    /\ \A i \in Insts, k \in 1..MaxActions : WF_vars(WaitForInputDone(i, k))

(***************************************************************************)
(* A harness that calls process_placeholders on its own: the templates are *)
(* built from markers and literal text, the context is the first element   *)
(* of a response buffer or none, the environment one of a few.             *)
(***************************************************************************)
Segments ==
    { Marker(<< "input" >>), Marker(<< "output" >>), Marker(<< "env:", "FOO" >>),
      Marker(<< "bogus" >>), Marker(<< QUOTE >>),
      << SPACE >>, << "x" >>, << LBRACE >>, << RBRACE >> }

RECURSIVE TemplatesOf(_)
TemplatesOf(n) ==
    IF n = 0 THEN { EmptyString }
    ELSE TemplatesOf(n - 1)
             \cup { t \o seg : t \in TemplatesOf(n - 1), seg \in Segments }

Templates == TemplatesOf(MaxSegments)

Contexts == { None, Some(<< "world" >>) }

ResolverEnvs ==
    { << >>,
      << "FOO" >> :> << "bar" >>,
      (<< "FOO" >> :> << "bar" >>) @@ (<< "input" >> :> << "shadow" >>),
      (<< "FOO" >> :> << "bar" >>) @@ (<< "bogus" >> :> << "ghost" >>),
      (<< "FOO" >> :> << "bar" >>) @@ (<< "env:", "FOO" >> :> << "odd" >>) }

EngineOff ==
    /\ config = [i \in Insts |-> NoConfig]
    /\ current_state_key = [i \in Insts |-> EmptyString]
    /\ next_state_key = [i \in Insts |-> EmptyString]
    /\ response_buffer = [i \in Insts |-> << >>]
    /\ pc = [i \in Insts |-> "idle"]
    /\ results = [i \in Insts |-> << >>]
    /\ completed = [i \in Insts |-> << >>]
    /\ input_rx = [i \in Insts |-> None]
    /\ output_tx = [i \in Insts |-> None]
    /\ streams_map = [i \in Insts |-> {}]
    /\ config_update_rx = [i \in Insts |-> << >>]
    /\ ret = [i \in Insts |-> NoReturn]
    /\ chan = [l \in Labels |-> << >>]
    /\ sent_reloads = 0

ResolverInit ==
    /\ environ \in ResolverEnvs
    /\ EngineOff
    /\ r_pc = "call"
    /\ r_template \in Templates
    /\ r_context \in Contexts
    /\ r_result = NoReturn

ResolverCall ==
    /\ r_pc = "call"
    /\ r_result' = process_placeholders(r_template, r_context)
    /\ r_pc' = "done"
    /\ UNCHANGED << environ, engine_vars, r_template, r_context >>

ResolverNext == ResolverCall

ResolverSpec == ResolverInit /\ [][ResolverNext]_vars

(***************************************************************************)
(* Properties of the state loop.                                           *)
(***************************************************************************)
\* instance i leaves the join of its current state in this step
JoinStep(i) == pc[i] = "join" /\ pc'[i] # "join"

\* the actions of the current state of i that completed with an output
Producing(i) ==
    { k \in 1..Len(results[i]) :
        /\ results[i][k].st = "done"
        /\ results[i][k].res.tag = "Ok"
        /\ IsSome(results[i][k].res.val) }

Failed(i) ==
    { k \in 1..Len(results[i]) :
        results[i][k].st = "done" /\ results[i][k].res.tag = "Err" }

\* the output of action k in the form the loop stores it
StoredOutput(i, k) ==
    process_placeholders(Unwrap(results[i][k].res.val), first(response_buffer[i])).val

\* the outputs of the producing actions, one position each, by declaration index
OutputsInDeclarationOrder(i) ==
    [n \in 1..Cardinality(Producing(i)) |->
        StoredOutput(i, CHOOSE k \in Producing(i) :
                            Cardinality({ m \in Producing(i) : m <= k }) = n)]

\* C1: whatever the order in which the actions of a state complete, the
\* response context the state produces holds one element for each action that
\* produced output and none for the others, in the declaration order of the
\* actions.
C1_ResultOrdering ==
    [][\A i \in Insts :
          JoinStep(i) => response_buffer'[i] = OutputsInDeclarationOrder(i)]_vars

\* two actions produced different outputs and the later declared completed first
C1_Witness ==
    \E i \in Insts : \E k, m \in Producing(i) :
        /\ pc[i] \in { "reload", "done" }
        /\ k < m
        /\ results[i][k].res # results[i][m].res
        /\ \E a, b \in 1..Len(completed[i]) :
               a < b /\ completed[i][a] = m /\ completed[i][b] = k
        /\ Len(response_buffer[i]) = 2

\* what the loop does after a state once the response context is new_buffer
Transition(i, new_buffer) ==
    next_step(state_config(i), config[i], new_buffer, response_buffer[i])

\* C2: a failed action of a state is no more than an action without output:
\* run() returns no error because of it, the outputs of the other actions of
\* the state are the new response context, and the loop continues or ends as
\* that context decides.
C2_ActionErrorsAbsorbed ==
    [][\A i \in Insts :
          (JoinStep(i) /\ Failed(i) # {}) =>
              /\ ret'[i].tag # "Err"
              /\ response_buffer'[i] = OutputsInDeclarationOrder(i)
              /\ Transition(i, OutputsInDeclarationOrder(i)).tag = "Continue" =>
                     /\ pc'[i] = "reload"
                     /\ next_state_key'[i] = Transition(i, OutputsInDeclarationOrder(i)).key
              /\ Transition(i, OutputsInDeclarationOrder(i)).tag = "Break" =>
                     /\ pc'[i] = "done"
                     /\ ret'[i] = Ok(OutputsInDeclarationOrder(i))]_vars

\* a state with a failed action and an output went on to its next state
C2_Witness ==
    \E i \in Insts :
        /\ pc[i] = "reload"
        /\ Failed(i) # {}
        /\ Producing(i) # {}
        /\ Len(response_buffer[i]) = Cardinality(Producing(i))

\* C3: an instance that is not launching or joining the actions of a state has
\* no action running: every future of the state it left is ready and the agent
\* it spawned is gone.  Looking up the next state, checking the reload inbox
\* and returning happen only then.
C3_Barrier ==
    \A i \in Insts :
        pc[i] \in { "lookup", "reload", "done" } =>
            /\ \A k \in 1..Len(results[i]) : results[i][k].st = "done"
            /\ i + 1 \in Insts => pc[i + 1] = "idle"

\* the root has left a state of two actions whose spawned agent finished last
C3_Witness ==
    /\ pc[1] = "reload"
    /\ completed[1] = << 2, 1 >>
    /\ pc[2] = "idle"
    /\ IsSome(results[1][1].res.val)

\* C4: the join of a state without next_state ends the run: run() returns Ok
\* of the response context of that state, and an instance that returned enters
\* no further state.
C4_TerminationWithoutNextState ==
    [][\A i \in Insts :
          /\ (JoinStep(i) /\ ~IsSome(state_config(i).next_state)) =>
                 /\ pc'[i] = "done"
                 /\ ret'[i] = Ok(OutputsInDeclarationOrder(i))
          /\ pc[i] = "done" =>
                 /\ pc'[i] \in { "done", "idle" }
                 /\ results'[i] \in { results[i], << >> }]_vars

\* an instance returned the outputs of a state that has no next_state
C4_Witness ==
    \E i \in Insts :
        /\ pc[i] = "done"
        /\ next_state_key[i] \in DOMAIN config[i].states
        /\ ~IsSome(state_config(i).next_state)
        /\ Producing(i) # {}
        /\ ret[i] = Ok(response_buffer[i])
        /\ Len(response_buffer[i]) > 0

\* C5: when the key that next_state resolves to names no state of the active
\* configuration, run() returns Ok of the response context of the state just
\* executed, and starts no action.
C5_MissingNextState ==
    [][\A i \in Insts :
          (/\ JoinStep(i)
           /\ IsSome(state_config(i).next_state)
           /\ process_placeholders(Unwrap(state_config(i).next_state),
                                   first(response_buffer'[i])).val
                  \notin DOMAIN config[i].states) =>
              /\ pc'[i] = "done"
              /\ ret'[i] = Ok(response_buffer'[i])
              /\ response_buffer'[i] = OutputsInDeclarationOrder(i)
              /\ results'[i] = results[i]]_vars

\* an instance returned the outputs of a state whose next state does not exist
C5_Witness ==
    \E i \in Insts :
        /\ pc[i] = "done"
        /\ next_state_key[i] \in DOMAIN config[i].states
        /\ IsSome(state_config(i).next_state)
        /\ Producing(i) # {}
        /\ ret[i] = Ok(response_buffer[i])
        /\ Len(response_buffer[i]) > 0

\* C6: an instance whose initial_state_key names no state creates no action
\* future and returns Ok of the empty list; it stays that way.
C6_MissingInitialState ==
    [][\A i \in Insts :
          /\ (/\ pc[i] = "lookup"
              /\ results[i] = << >>
              /\ config[i].initial_state_key \notin DOMAIN config[i].states
              /\ pc'[i] # "lookup") =>
                 /\ pc'[i] = "done"
                 /\ ret'[i] = Ok(<< >>)
                 /\ results'[i] = << >>
                 /\ chan' = chan
          /\ (pc[i] = "done" /\ results[i] = << >>) =>
                 (pc'[i] = "done" => results'[i] = << >> /\ ret'[i] = ret[i])]_vars

\* the root returned the empty list without having started an action
C6_Witness ==
    /\ pc[1] = "done"
    /\ config[1].initial_state_key \notin DOMAIN config[1].states
    /\ results[1] = << >>
    /\ ret[1] = Ok(<< >>)

(***************************************************************************)
(* Properties of the placeholder resolver.                                 *)
(***************************************************************************)
\* The resolution rules as they are stated for the resolver: input and output
\* stand for the context value, env:NAME for the environment variable NAME,
\* any other marker for the empty string.
IsContextMarker(text) == text = << "input" >> \/ text = << "output" >>
IsEnvMarker(text) == Len(text) >= 2 /\ text[1] = "env:"

stated_replacement(text, context) ==
    IF IsContextMarker(text) THEN unwrap_or_default(context)
    ELSE IF IsEnvMarker(text) THEN env_var(SubSeq(text, 2, Len(text)))
    ELSE EmptyString

RECURSIVE stated_resolve(_, _, _)
stated_resolve(s, pos, context) ==
    IF pos > Len(s) THEN EmptyString
    ELSE LET j == MarkerEnd(s, pos)
         IN  IF j = 0
             THEN << s[pos] >> \o stated_resolve(s, pos + 1, context)
             ELSE stated_replacement(SubSeq(s, pos + 1, j - 1), context)
                      \o stated_resolve(s, j + 1, context)

\* the texts of the markers of a template
RECURSIVE MarkerTexts(_, _)
MarkerTexts(s, pos) ==
    IF pos > Len(s) THEN {}
    ELSE LET j == MarkerEnd(s, pos)
         IN  IF j = 0 THEN MarkerTexts(s, pos + 1)
             ELSE { SubSeq(s, pos + 1, j - 1) } \cup MarkerTexts(s, j + 1)

\* C7: a next_state template is resolved with the first element of the
\* response context the same state produced, {input} and {output} standing for
\* that element, and when the resolved string is a state key the loop
\* continues with exactly that state.
C7_DataDependentBranching ==
    [][\A i \in Insts :
          (/\ JoinStep(i)
           /\ IsSome(state_config(i).next_state)
           /\ stated_resolve(Unwrap(state_config(i).next_state), 1,
                             first(response_buffer'[i]))
                  \in DOMAIN config[i].states) =>
              /\ pc'[i] = "reload"
              /\ next_state_key'[i] =
                     stated_resolve(Unwrap(state_config(i).next_state), 1,
                                    first(response_buffer'[i]))]_vars

\* C8: a state none of whose actions produced output hands on the empty
\* response context, and its next_state template is resolved with {input} and
\* {output} standing for the empty string.
C8_EmptyContext ==
    [][\A i \in Insts :
          (JoinStep(i) /\ Producing(i) = {}) =>
              /\ response_buffer'[i] = << >>
              /\ IsSome(state_config(i).next_state) =>
                     IF stated_resolve(Unwrap(state_config(i).next_state), 1, None)
                            \in DOMAIN config[i].states
                     THEN /\ pc'[i] = "reload"
                          /\ next_state_key'[i] =
                                 stated_resolve(Unwrap(state_config(i).next_state), 1, None)
                     ELSE pc'[i] = "done"]_vars

\* C9: a template whose markers are all input, output or env:NAME resolves by
\* the stated rules: the context value (or the empty string) for input and
\* output, the value of the variable NAME (or the empty string) for env:NAME.
C9_TemplateRules ==
    (/\ r_pc = "done"
     /\ \A text \in MarkerTexts(r_template, 1) :
            IsContextMarker(text) \/ IsEnvMarker(text)) =>
        r_result = Ok(stated_resolve(r_template, 1, r_context))

\* C10: a template whose markers are all unknown resolves, in every
\* environment and with every context, to its literal text with the markers
\* taken out, and the resolver returns Ok.
C10_UnknownMarker ==
    (/\ r_pc = "done"
     /\ MarkerTexts(r_template, 1) # {}
     /\ \A text \in MarkerTexts(r_template, 1) :
            ~IsContextMarker(text) /\ ~IsEnvMarker(text)) =>
        r_result = Ok(stated_resolve(r_template, 1, r_context))

(***************************************************************************)
(* What the loop stores of an action's output.                             *)
(***************************************************************************)
\* the output of action k as the action produced it
RawOutput(i, k) == Unwrap(results[i][k].res.val)

\* the position of producing action k in the response context of its state
Rank(i, k) == Cardinality({ m \in Producing(i) : m <= k })

\* one pass over s from pos: the text outside markers as it is, each marker
\* replaced by the value of the environment variable its text names, by
\* nothing when the variable is unset or the text is no JSON string; what a
\* marker is replaced by is not looked at again
RECURSIVE resolved_once(_, _)
resolved_once(s, pos) ==
    IF pos > Len(s) THEN EmptyString
    ELSE IF MarkerEnd(s, pos) = 0 THEN << s[pos] >> \o resolved_once(s, pos + 1)
    ELSE LET text == SubSeq(s, pos + 1, MarkerEnd(s, pos) - 1)
         IN  (IF \E n \in 1..Len(text) : text[n] \in { QUOTE, LF }
              THEN EmptyString
              ELSE IF text \in DOMAIN environ THEN environ[text]
              ELSE EmptyString)
                 \o resolved_once(s, MarkerEnd(s, pos) + 1)

\* C11 as stated: every output an action produces is stored in the response
\* context exactly as the action produced it, the marker text in it neither
\* resolved nor removed.
C11_OutputsUnchanged ==
    [][\A i \in Insts :
          JoinStep(i) =>
              \A k \in Producing(i) :
                  response_buffer'[i][Rank(i, k)] = RawOutput(i, k)]_vars

\* C11 as the code has it: every output an action produces goes through the
\* template resolver once before it is stored.  An output without a marker is
\* stored as produced; in an output with markers the text outside them is kept
\* and each marker is replaced once; marker text that a replacement puts in is
\* stored as it is, neither resolved nor removed.
C11_OutputsResolvedOnce ==
    [][\A i \in Insts :
          JoinStep(i) =>
              \A k \in Producing(i) :
                  /\ response_buffer'[i][Rank(i, k)] = resolved_once(RawOutput(i, k), 1)
                  /\ MarkerTexts(RawOutput(i, k), 1) = { } =>
                         response_buffer'[i][Rank(i, k)] = RawOutput(i, k)]_vars

\* an output with a marker was stored: the marker is gone, and the marker text
\* its replacement put in is in the response context
C11_Witness ==
    \E i \in Insts : \E k \in Producing(i) :
        /\ pc[i] \in { "reload", "done" }
        /\ MarkerTexts(RawOutput(i, k), 1) # { }
        /\ response_buffer[i][Rank(i, k)] # RawOutput(i, k)
        /\ MarkerTexts(response_buffer[i][Rank(i, k)], 1) = { KeyC }

(***************************************************************************)
(* Inbound delivery.                                                       *)
(***************************************************************************)
\* the step in which the WaitForInput future k of instance i becomes ready
\* after it was awaited
ReceiveEnds(i, k) ==
    /\ k \in 1..Len(results[i])
    /\ k \in Receiving(i)
    /\ k \in 1..Len(results'[i])
    /\ results'[i][k].st = "done"

\* the messages published on the inbound channel of instance i since input_rx
\* of the instance subscribed
PublishedSinceSubscribed(i) ==
    SubSeq(chan[Unwrap(input_rx[i]).label],
           Unwrap(input_rx[i]).pos + 1, Len(chan[Unwrap(input_rx[i]).label]))

\* C12: a message that was published on the inbound channel of an instance
\* after the instance's subscription was made is what a WaitForInput of the
\* instance returns, also when it was published before run() started or
\* before the action began (for the machine of the test, one state with one
\* WaitForInput, that message is then the one element run() returns).
C12_InboundDelivery ==
    [][\A i \in Insts : \A k \in 1..MaxActions :
          (ReceiveEnds(i, k) /\ IsSome(input_rx[i])
             /\ PublishedSinceSubscribed(i) # << >>) =>
              results'[i][k].res = Ok(Some(PublishedSinceSubscribed(i)[1]))]_vars

(***************************************************************************)
(* The bounded receive.                                                    *)
(***************************************************************************)
\* the receiver of the pending receive k of instance i has a message to take
HasMessage(i, k) ==
    Len(chan[results[i][k].rx.label]) > results[i][k].rx.pos

\* what one step may do to the WaitForInput future k of instance i
OneReceive(i, k) ==
    \* while it is pending it keeps the one receiver it made, and it is never
    \* awaited beyond the deadline
    /\ (k \in Receiving(i) /\ k \in 1..Len(results'[i])
          /\ results'[i][k].st = "running") =>
           /\ results'[i][k].rx = results[i][k].rx
           /\ results'[i][k].elapsed <= TimeoutSecs
    \* it ends without error, with the oldest message the receiver has not
    \* seen or with no output
    /\ ReceiveEnds(i, k) =>
           /\ results'[i][k].res.tag = "Ok"
           /\ HasMessage(i, k) =>
                  results'[i][k].res =
                      Ok(Some(chan[results[i][k].rx.label][results[i][k].rx.pos + 1]))
           /\ ~HasMessage(i, k) => results'[i][k].res = Ok(None)
    \* on an open channel without a message it ends at the deadline, not before
    /\ (ReceiveEnds(i, k) /\ ~HasMessage(i, k)
          /\ SenderCount(results[i][k].rx.label) > 0) =>
           results[i][k].elapsed = TimeoutSecs
    \* once it is over it is over: no second receive while the state executes
    /\ (pc[i] \in { "launch", "join" } /\ pc'[i] \in { "launch", "join" }
          /\ k \in 1..Len(results[i]) /\ actions(i)[k].kind = "WaitForInput"
          /\ results[i][k].st = "done") =>
           results'[i][k] = results[i][k]

\* C13: WaitForInput is one bounded receive.  On a wired, open channel on which
\* nothing is published it does not end before the deadline, ends when the
\* deadline is reached and gives no output; whatever ends it (a message, a
\* closed channel, a lagging receiver, the deadline), there is one receive, no
\* second attempt, and it always ends.
C13_SingleBoundedReceive ==
    /\ [][\A i \in Insts : \A k \in 1..MaxActions : OneReceive(i, k)]_vars
    /\ (\E i \in Insts : Receiving(i) # { }) ~> (\A i \in Insts : Receiving(i) = { })

\* the instance of the test returned nothing and nothing was ever published on
\* its channel: its receive was ended by the deadline
C13_Witness ==
    /\ config[1] = TestConfig
    /\ pc[1] = "done"
    /\ chan["T"] = << >>
    /\ ret[1] = Ok(<< >>)

(***************************************************************************)
(* Spawned agents.                                                         *)
(***************************************************************************)
\* the step in which the SpawnAgent future k of instance i becomes ready
SpawnEnds(i, k) ==
    /\ pc[i] \in { "launch", "join" }
    /\ k \in 1..Len(results[i])
    /\ actions(i)[k].kind = "SpawnAgent"
    /\ results[i][k].st \in { "loading", "running" }
    /\ k \in 1..Len(results'[i])
    /\ results'[i][k].st = "done"

\* ... because the child failed: its configuration did not load, or its task
\* ended with anything but Ok
SpawnFails(i, k) ==
    /\ SpawnEnds(i, k)
    /\ results[i][k].st = "running" => ret[i + 1].tag # "Ok"

\* the SpawnAgent actions of the state instance i executes that failed
FailedSpawns(i) ==
    { k \in Failed(i) : actions(i)[k].kind = "SpawnAgent" }

\* C14: a spawned child that fails (its configuration cannot be loaded, its
\* run returns an error, its task panics) costs the parent the output of that
\* SpawnAgent action and nothing else: the action is a failed action, the
\* parent's configuration, state key, response context and the futures of its
\* other actions are untouched, and the parent's run does not end with an
\* error but goes on as the outputs of the other actions decide.
C14_SpawnIsolation ==
    [][\A i \in Insts :
          /\ \A k \in 1..MaxActions :
                 SpawnFails(i, k) =>
                     /\ results'[i][k].res = Err
                     /\ config'[i] = config[i]
                     /\ current_state_key'[i] = current_state_key[i]
                     /\ next_state_key'[i] = next_state_key[i]
                     /\ response_buffer'[i] = response_buffer[i]
                     /\ pc'[i] = pc[i] /\ ret'[i] = ret[i]
                     /\ \A m \in 1..Len(results[i]) :
                            m # k => results'[i][m] = results[i][m]
          /\ (JoinStep(i) /\ FailedSpawns(i) # { }) =>
                 /\ ret'[i].tag # "Err"
                 /\ Len(response_buffer'[i]) = Cardinality(Producing(i))
                 /\ Transition(i, response_buffer'[i]).tag = "Continue" =>
                        /\ pc'[i] = "reload"
                        /\ next_state_key'[i] = Transition(i, response_buffer'[i]).key]_vars

\* the root's spawned agent panicked in the root's first state; the root kept
\* the output of its other action and is on its way to state b
C14_Witness ==
    /\ config[1] = RootSpawnConfig
    /\ pc[1] = "reload"
    /\ next_state_key[1] = KeyB
    /\ \E k \in 1..Len(results[1]) :
           /\ config[1].states[KeyA].actions[k].kind = "SpawnAgent"
           /\ results[1][k].res = Err
    /\ Len(response_buffer[1]) = 1

\* the lines of a list as one text: the elements in order, a line feed between
\* every two of them and none at either end
RECURSIVE Lines(_)
Lines(list) ==
    IF Len(list) = 0 THEN EmptyString
    ELSE Lines(SubSeq(list, 1, Len(list) - 1))
             \o (IF Len(list) > 1 THEN << LF >> ELSE EmptyString)
             \o list[Len(list)]

\* C15: a SpawnAgent action ends only when the child's run has ended, whatever
\* its is_background flag says; when the child succeeded the action's output
\* is one string, the child's result list joined by line feeds (the empty
\* string for an empty list), and that one output takes one place in the
\* parent's response context.
C15_SpawnAwaitsAndJoins ==
    [][\A i \in Insts :
          /\ \A k \in 1..MaxActions :
                 (SpawnEnds(i, k) /\ ~SpawnFails(i, k)) =>
                     /\ i + 1 \in Insts
                     /\ pc[i + 1] = "done" /\ ret[i + 1].tag = "Ok"
                     /\ pc'[i + 1] = "idle"
                     /\ results'[i][k].res = Ok(Some(Lines(ret[i + 1].val)))
          /\ \A k \in 1..MaxActions :
                 (k \in 1..Len(results[i]) /\ results[i][k].st = "running"
                    /\ actions(i)[k].kind = "SpawnAgent") =>
                     /\ i + 1 \in Insts
                     /\ pc[i + 1] # "idle"
                     /\ pc[i + 1] # "done" => pc[i] \in { "launch", "join" }
          /\ JoinStep(i) =>
                 \A k \in 1..Len(results[i]) :
                     (actions(i)[k].kind = "SpawnAgent" /\ results[i][k].res.tag = "Ok") =>
                         /\ k \in Producing(i)
                         /\ Len(response_buffer'[i]) = Cardinality(Producing(i))]_vars

\* the root's spawn marked as background gave the empty string for a child
\* whose result list had nothing to join, and its spawn not marked so gave
\* two lines for a child that returned two elements
C15_Witness ==
    /\ config[1] = RootSpawnConfig
    /\ next_state_key[1] = KeyB
    /\ pc[1] = "join"
    /\ Len(response_buffer[1]) = 2
    /\ response_buffer[1][1] = EmptyString
    /\ \E k \in 1..Len(results[1]) :
           /\ actions(1)[k].kind = "SpawnAgent" /\ ~actions(1)[k].is_background
           /\ results[1][k].st = "done" /\ results[1][k].res.tag = "Ok"
           /\ IsSome(results[1][k].res.val)
           /\ Len(SelectSeq(Unwrap(results[1][k].res.val), LAMBDA t : t = LF)) = 1

(***************************************************************************)
(* The channel registry.                                                   *)
(***************************************************************************)
\* the SpawnAgent actions of a configuration, over all its states
SpawnActions(cfg) ==
    { a \in UNION { { cfg.states[key].actions[n] : n \in 1..Len(cfg.states[key].actions) } :
                    key \in DOMAIN cfg.states } :
        a.kind = "SpawnAgent" }

\* the step in which the root wires and spawns the child of its action k
RootSpawns(k) ==
    /\ pc[1] \in { "launch", "join" }
    /\ k \in 1..Len(results[1])
    /\ actions(1)[k].kind = "SpawnAgent"
    /\ results[1][k].st \in { "pending", "loading" }
    /\ results'[1][k].st = "running"

\* the step in which instance i polls its action k for the first time
FirstPoll(i, k) ==
    /\ pc[i] = "launch"
    /\ k \in 1..Len(results[i])
    /\ results[i][k].st = "pending"
    /\ results'[i][k].st # "pending"

\* C16: the root's registry holds a channel for each distinct output_label of
\* the SpawnAgent actions of the configuration the root was built with, all
\* states counted, and for nothing else.  It is complete before a state is
\* executed and stays as it is for as long as the root runs: no spawn and no
\* reload adds a channel.  A SpawnAgent of the root gives the child a handle
\* for a label that is in the registry and none for a label that is not; a
\* child without the handle neither waits for input nor publishes.
C16_RegistryInvariant ==
    /\ streams_map[1] = { a.output_label : a \in SpawnActions(config[1]) }
    /\ [][/\ pc'[1] # "done" => streams_map'[1] = streams_map[1]
          /\ \A k \in 1..MaxActions :
                 RootSpawns(k) =>
                     /\ input_rx'[2] =
                            IF actions(1)[k].input_label \in streams_map[1]
                            THEN Some([label |-> actions(1)[k].input_label,
                                       pos |-> Len(chan[actions(1)[k].input_label])])
                            ELSE None
                     /\ output_tx'[2] =
                            IF actions(1)[k].output_label \in streams_map[1]
                            THEN Some(actions(1)[k].output_label)
                            ELSE None
          /\ \A k \in 1..MaxActions :
                 (FirstPoll(2, k) /\ actions(2)[k].kind = "WaitForInput"
                    /\ input_rx[2] = None) =>
                     results'[2][k] = Ready(Ok(None))
          /\ \A k \in 1..MaxActions :
                 (FirstPoll(2, k) /\ actions(2)[k].kind = "Yield"
                    /\ output_tx[2] = None) =>
                     results'[2][k] = Ready(Ok(None)) /\ chan' = chan]_vars

\* a root built with channels for L and M runs a replacement configuration
\* whose spawn names the output label N: the child listens on L and has no
\* handle to publish with
C16_Witness ==
    /\ config[1] = ReloadSpawnConfig
    /\ streams_map[1] = { "L", "M" }
    /\ pc[2] \in { "lookup", "launch", "join" }
    /\ IsSome(input_rx[2])
    /\ output_tx[2] = None

(***************************************************************************)
(* Reloading the configuration.                                            *)
(***************************************************************************)
\* the step that takes instance i from the reload check to the next lookup
ReloadChecked(i) == pc[i] = "reload" /\ pc'[i] # "reload"

\* C17: a state after which the run goes on is followed by one check of the
\* reload inbox before the next state is looked up.  The check never waits:
\* with an empty inbox the loop goes on at once with the configuration and the
\* state key it had; with a configuration waiting, the oldest one becomes the
\* active configuration and current_state_key becomes its initial_state_key.
C17_ReloadCheck ==
    [][\A i \in Insts :
          /\ (JoinStep(i) /\ pc'[i] # "done") =>
                 pc'[i] = "reload" /\ config'[i] = config[i]
          /\ pc[i] = "reload" => ENABLED CheckReload(i)
          /\ ReloadChecked(i) =>
                 /\ pc'[i] = "lookup"
                 /\ IF config_update_rx[i] = << >>
                    THEN /\ config'[i] = config[i]
                         /\ current_state_key'[i] = current_state_key[i]
                         /\ config_update_rx'[i] = << >>
                    ELSE /\ config'[i] = config_update_rx[i][1]
                         /\ current_state_key'[i] = config_update_rx[i][1].initial_state_key
                         /\ config_update_rx'[i] = Tail(config_update_rx[i])]_vars

\* the root has executed a state, and the check after it made a replacement
\* the active configuration: current_state_key is the replacement's initial key
C17_Witness ==
    /\ pc[1] = "lookup"
    /\ results[1] # << >>
    /\ config[1] = RootMissingConfig
    /\ current_state_key[1] = KeyAbsent
    /\ config_update_rx[1] = << >>

\* the step in which instance i looks up the state to execute
LooksUp(i) == pc[i] = "lookup" /\ pc'[i] # "lookup" /\ ret'[i] # Panicked

\* C18: a reload does not restart the loop.  The step that makes a replacement
\* the active configuration leaves the loop's key, which state s resolved and
\* the old configuration held, and the response context of s as they are.  The
\* next lookup takes that key to the active configuration, not the
\* configuration's initial_state_key: the state of that key is executed, or,
\* when the new configuration has no such state, run() returns Ok of the
\* response context of s.
C18_StaleLoopKey ==
    [][\A i \in Insts :
          /\ (ReloadChecked(i) /\ config_update_rx[i] # << >>) =>
                 /\ next_state_key[i] \in DOMAIN config[i].states
                 /\ next_state_key'[i] = next_state_key[i]
                 /\ response_buffer'[i] = response_buffer[i]
          /\ LooksUp(i) =>
                 /\ next_state_key'[i] = next_state_key[i]
                 /\ response_buffer'[i] = response_buffer[i]
                 /\ IF next_state_key[i] \in DOMAIN config[i].states
                    THEN /\ pc'[i] \in { "launch", "join" }
                         /\ Len(results'[i]) =
                                Len(config[i].states[next_state_key[i]].actions)
                    ELSE /\ pc'[i] = "done"
                         /\ ret'[i] = Ok(response_buffer[i])]_vars

\* the root ran state a of a configuration, was reloaded with one that has no
\* state b, and returned the response context of a
C18_Witness ==
    /\ pc[1] = "done"
    /\ config[1] = RootMissingConfig
    /\ next_state_key[1] = KeyB
    /\ current_state_key[1] = KeyAbsent
    /\ Len(response_buffer[1]) > 0
    /\ ret[1] = Ok(response_buffer[1])

(***************************************************************************)
(* Publishing.                                                             *)
(***************************************************************************)
\* the Yield actions of the state instance i executes
Yields(i) == { k \in 1..Len(results[i]) : actions(i)[k].kind = "Yield" }

\* C19: a Yield is over at its first poll and never has an output.  It sends
\* one message, the first element of the response context the previous state
\* left, when the instance has an outbound handle, that context is not empty
\* and the channel has a live receiver; without a handle or with an empty
\* context it sends nothing and succeeds; without a live receiver nothing is
\* sent and the Yield is a failed action, which the state survives like any
\* other.  What the actions of its own state produce plays no part.
C19_YieldPreviousContext ==
    [][\A i \in Insts :
          /\ \A k \in 1..MaxActions :
                 (FirstPoll(i, k) /\ actions(i)[k].kind = "Yield") =>
                     /\ results'[i][k].st = "done"
                     /\ ~IsSome(results'[i][k].res.val)
                     /\ IF output_tx[i] = None \/ response_buffer[i] = << >>
                        THEN chan' = chan /\ results'[i][k].res = Ok(None)
                        ELSE IF ReceiverCount(output_tx[i][1]) = 0
                        THEN chan' = chan /\ results'[i][k].res = Err
                        ELSE /\ results'[i][k].res = Ok(None)
                             /\ chan' = [chan EXCEPT ![output_tx[i][1]] =
                                            chan[output_tx[i][1]] \o
                                                << response_buffer[i][1] >>]
          /\ JoinStep(i) =>
                 /\ Yields(i) \cap Producing(i) = { }
                 /\ Yields(i) \cap Failed(i) # { } => ret'[i].tag # "Err"]_vars

\* a child has published the first element of the context of its previous
\* state on L, next to an action of the same state that is still to produce
C19_Witness ==
    \E k \in 1..Len(results[2]) :
        /\ pc[2] \in { "launch", "join" }
        /\ actions(2)[k].kind = "Yield"
        /\ results[2][k] = Ready(Ok(None))
        /\ output_tx[2] = Some("L")
        /\ Len(response_buffer[2]) = 1
        /\ chan["L"] = << response_buffer[2][1] >>
        /\ \E m \in 1..Len(results[2]) : results[2][m].st = "running"

(***************************************************************************)
(* Channels below the root.                                                *)
(***************************************************************************)
\* C20: only the root has channels.  Every spawned instance has an empty
\* registry, so an instance spawned by a spawned instance has neither an
\* inbound nor an outbound handle, whatever labels its SpawnAgent action names
\* and whatever channels the root has.  A WaitForInput of such an instance is
\* over at its first poll with no output and never waits; a Yield of it leaves
\* every channel as it is.
C20_OnlyRootOwnsChannels ==
    [][\A i \in Insts :
          /\ i > 1 => streams_map'[i] = { }
          /\ i > 2 => input_rx'[i] = None /\ output_tx'[i] = None
          /\ i > 2 =>
                 \A k \in 1..MaxActions :
                     /\ (FirstPoll(i, k) /\ actions(i)[k].kind = "WaitForInput") =>
                            results'[i][k] = Ready(Ok(None))
                     /\ (FirstPoll(i, k) /\ actions(i)[k].kind = "Yield") =>
                            results'[i][k] = Ready(Ok(None)) /\ chan' = chan
                     /\ Receiving(i) = { }]_vars

\* an instance spawned by a child on label L, for which the root has a channel
\* with a live receiver, has ended a Yield with a context to publish and a
\* WaitForInput, and nothing was published
C20_Witness ==
    /\ pc[3] = "join"
    /\ "L" \in streams_map[1]
    /\ ReceiverCount("L") > 0
    /\ Len(response_buffer[3]) = 1
    /\ \A k \in 1..Len(results[3]) : results[3][k] = Ready(Ok(None))
    /\ Yields(3) # { }
    /\ chan["L"] = << >>

====
